---- MODULE Spec2Model ----
(***************************************************************************)
(* Model of the file-upload gateway.  The repository holds three gateway   *)
(* variants:                                                               *)
(*   variant 1: src/gateway.js lines 1-73   (per-route proxies, fixed      *)
(*              target http://localhost:3000)                               *)
(*   variant 2: src/gateway.js lines 74-267 (CONFIG, cors, /test-backend,  *)
(*              one proxy mounted on /api)                                 *)
(*   variant 3: src/unnamed/part_000        (two bare proxies, target from *)
(*              process.env.BACKEND_URL)                                   *)
(* One process runs one variant.  A request is followed from its arrival   *)
(* to the end of its response; requests share no state, so they are        *)
(* followed one at a time.                                                 *)
(***************************************************************************)
EXTENDS Integers, Sequences, FiniteSets, TLC

VARIABLES
  variant,        \* which gateway file the process runs
  envBackendUrl,  \* process.env.BACKEND_URL
  envNodeEnv,     \* process.env.NODE_ENV
  proc,           \* "starting", "listening" or "exited"
  req,            \* the inbound request being handled, or NoReq
  phase,          \* forward call: Idle, Sending, Relaying, Done, Failed
  res,            \* the response object of the inbound request
  outbound,       \* the outbound requests issued for this inbound request
  answers,        \* the response heads the backend produced, in order
  relayed,        \* number of body chunks of the last answer piped to res
  elapsed,        \* ms the outbound request has waited for a response head
  failure,        \* the transport failure delivered to the gateway, or NoErr
  handledBy       \* which handler wrote the response

vars == <<variant, envBackendUrl, envNodeEnv, proc, req, phase, res, outbound,
          answers, relayed, elapsed, failure, handledBy>>

\* ------------------------------------------------------------------ bounds
MaxTicks == 3        \* clock ticks a silent backend is followed for
MaxHops == 1         \* redirects followed within one forward call

\* --------------------------------------------------------------- JS values
Undefined == "undefined"
EmptyString == ""
Falsy(x) == x \in {Undefined, EmptyString}
\* JavaScript a || b
Or(a, b) == IF Falsy(a) THEN b ELSE a

\* ----------------------------------------------------------------- strings
\* URLs are sequences of characters, so that the regular expression ^/api
\* is applied to characters as the code applies it.
StartsWith(s, prefix) ==
  /\ Len(s) >= Len(prefix)
  /\ SubSeq(s, 1, Len(prefix)) = prefix
Drop(s, n) == SubSeq(s, n + 1, Len(s))
HasSlash(s) == \E i \in 1..Len(s) : s[i] = "/"

S_api == <<"/", "a", "p", "i">>
S_root == <<"/">>
S_health == <<"/", "h", "e", "a", "l", "t", "h">>
S_test == <<"/", "t", "e", "s", "t">>
S_upload == <<"/", "u", "p", "l", "o", "a", "d">>
S_download == <<"/", "d", "o", "w", "n", "l", "o", "a", "d">>
S_file == <<"/", "f", "i", "l", "e">>
S_testBackend == <<"/", "t", "e", "s", "t", "-", "b", "a", "c", "k", "e", "n", "d">>
S_id == <<"/", "7">>
S_query == <<"?", "p", "=", "/", "a", "p", "i">>

\* The inbound URLs the model sends (path, query string).
Paths ==
  { S_root, S_health, S_testBackend,
    S_api, S_api \o S_test, S_api \o S_health,
    S_api \o S_upload, S_api \o S_upload \o S_api,
    S_api \o S_download \o S_id, S_api \o S_file \o S_id,
    S_api \o S_api \o S_upload, S_api \o <<"x">> }
Queries == { <<>>, S_query }
Methods == { "GET", "POST", "OPTIONS" }
\* (Host header, scheme) of the inbound connection
Clients == { <<"gw.example", "https">>, <<"localhost:4000", "http">>,
             <<"gw.example", "http">> }

NoReq == [method |-> "none", path |-> <<>>, query |-> <<>>, host |-> "",
          protocol |-> "", origin |-> Undefined, fault |-> FALSE]
Requests ==
  { [method |-> m, path |-> p, query |-> q, host |-> c[1], protocol |-> c[2],
     origin |-> o, fault |-> f] :
      m \in Methods, p \in Paths, q \in Queries, c \in Clients,
      o \in {Undefined, "https://app.example"}, f \in BOOLEAN }

\* req.originalUrl
originalUrl(r) == r.path \o r.query

\* ----------------------------------------------------------------- headers
\* A header set is a set of <<name, value>> pairs with one value per name.
HasHeader(h, n) == \E p \in h : p[1] = n
GetHeader(h, n) == IF HasHeader(h, n) THEN (CHOOSE p \in h : p[1] = n)[2] ELSE Undefined
SetHeader(h, n, v) == {p \in h : p[1] # n} \cup {<<n, v>>}
RECURSIVE SetHeaders(_, _)
SetHeaders(h, new) ==
  IF new = {} THEN h
  ELSE LET p == CHOOSE q \in new : TRUE
       IN SetHeaders(SetHeader(h, p[1], p[2]), new \ {p})

\* JSON.stringify drops the fields whose value is undefined.
Json(pairs) == {p \in pairs : p[2] # Undefined}
JsonHas(j, f) == \E p \in j : p[1] = f
JsonGet(j, f) == IF JsonHas(j, f) THEN (CHOOSE p \in j : p[1] = f)[2] ELSE Undefined

\* ---------------------------------------------------------------- response
NewRes == [statusCode |-> 200, headers |-> {}, json |-> {}, body |-> <<>>,
           headersSent |-> FALSE, ended |-> FALSE, destroyed |-> FALSE,
           heads |-> 0]

\* res.status(s).json(obj): writes the head and the JSON body, ends.
SendJson(r, s, obj) ==
  [r EXCEPT !.statusCode = s, !.json = Json(obj),
            !.headers = SetHeader(r.headers, "content-type", "application/json"),
            !.headersSent = TRUE, !.ended = TRUE, !.heads = r.heads + 1]
\* res.writeHead(s); res.end(text) / res.status(s).end() / res.send(text)
SendText(r, s, text) ==
  [r EXCEPT !.statusCode = s, !.body = r.body \o text,
            !.headersSent = TRUE, !.ended = TRUE,
            !.heads = r.heads + (IF r.headersSent THEN 0 ELSE 1)]

\* ------------------------------------------------------------------ errors
NoErr == [code |-> "none", message |-> ""]
ConnectErrors ==
  { [code |-> "ECONNREFUSED", message |-> "connect ECONNREFUSED"],
    [code |-> "CERT_HAS_EXPIRED", message |-> "certificate has expired"] }
StreamErrors == { [code |-> "ECONNRESET", message |-> "socket hang up"] }

\* ------------------------------------------------------------ configuration
DefaultBackend == "https://fileupload-backend-34ev.onrender.com"
\* CONFIG of variant 2
CONFIG ==
  [BACKEND_URL |-> Or(envBackendUrl, DefaultBackend),
   NODE_ENV |-> Or(envNodeEnv, "development")]

\* The target option each variant hands to createProxyMiddleware.
target ==
  CASE variant = 1 -> "http://localhost:3000"
    [] variant = 2 -> CONFIG.BACKEND_URL
    [] variant = 3 -> envBackendUrl

Init ==
  /\ variant \in 1..3
  /\ envBackendUrl \in {Undefined, EmptyString, "https://backend.example"}
  /\ envNodeEnv \in {Undefined, "development", "production"}
  /\ proc = "starting"
  /\ req = NoReq
  /\ phase = "Idle"
  /\ res = NewRes
  /\ outbound = <<>>
  /\ answers = <<>>
  /\ relayed = 0
  /\ elapsed = 0
  /\ failure = NoErr
  /\ handledBy = "none"

\* ----------------------------------------------------------------- startup
\* Variant 2 validates CONFIG.BACKEND_URL (which already holds the default);
\* variant 3 hands process.env.BACKEND_URL to createProxyMiddleware, which
\* throws on a missing target while the module is loading; variant 1 reads
\* no configuration.
StartupFails ==
  CASE variant = 1 -> FALSE
    [] variant = 2 -> Falsy(CONFIG.BACKEND_URL)
    [] variant = 3 -> Falsy(target)

Startup ==
  /\ proc = "starting"
  /\ proc' = IF StartupFails THEN "exited" ELSE "listening"
  /\ UNCHANGED <<variant, envBackendUrl, envNodeEnv, req, phase, res, outbound,
                 answers, relayed, elapsed, failure, handledBy>>

\* ----------------------------------------------------------------- routing
\* Express matches a route path with an optional trailing slash.
Norm(p) == IF Len(p) > 1 /\ p[Len(p)] = "/" THEN SubSeq(p, 1, Len(p) - 1) ELSE p
\* app.get(path) / app.post(path) with a literal path
RouteIs(p, route) == Norm(p) = route
\* a route ending in /:id
RouteParam(p, route) ==
  LET n == Norm(p) IN
  /\ StartsWith(n, route \o <<"/">>)
  /\ Len(n) > Len(route) + 1
  /\ ~HasSlash(Drop(n, Len(route) + 1))
\* app.use(mount, ...): the mount path matches up to a segment boundary
MountMatch(p, mount) ==
  /\ StartsWith(p, mount)
  /\ (Len(p) = Len(mount) \/ p[Len(mount) + 1] = "/")

\* Variant 1: the route table of src/gateway.js lines 12-60.
RouteV1(r) ==
  CASE r.method = "GET" /\ RouteIs(r.path, S_root) -> "root"
    [] r.method = "GET" /\ RouteIs(r.path, S_api \o S_test) -> "apitest"
    [] r.method = "POST" /\ RouteIs(r.path, S_api \o S_upload) -> "upload"
    [] r.method = "POST" /\ RouteParam(r.path, S_api \o S_download) -> "download"
    [] r.method = "GET" /\ RouteParam(r.path, S_api \o S_file) -> "file"
    [] r.method = "GET" /\ RouteIs(r.path, S_api \o S_health) -> "health"
    [] OTHER -> "none"

\* Variant 2: the middleware chain of src/gateway.js lines 125-253.  cors()
\* registered for OPTIONS ends every preflight before the chain goes on.
RouteV2(r) ==
  CASE r.method = "OPTIONS" -> "preflight"
    [] r.method # "OPTIONS" /\ r.fault -> "error"
    [] r.method = "GET" /\ ~r.fault /\ RouteIs(r.path, S_root) -> "root"
    [] r.method = "GET" /\ ~r.fault /\ RouteIs(r.path, S_health) -> "health"
    [] r.method = "GET" /\ ~r.fault /\ RouteIs(r.path, S_testBackend) -> "probe"
    [] r.method # "OPTIONS" /\ ~r.fault /\ MountMatch(r.path, S_api) -> "api"
    [] OTHER -> "none"

\* Variant 3: two mounts, every method.
RouteV3(r) ==
  CASE MountMatch(r.path, S_api \o S_upload) -> "upload"
    [] MountMatch(r.path, S_api \o S_download) -> "download"
    [] OTHER -> "none"

Route(r) ==
  CASE variant = 1 -> RouteV1(r)
    [] variant = 2 -> RouteV2(r)
    [] variant = 3 -> RouteV3(r)

Forwards(r) ==
  CASE variant = 1 -> RouteV1(r) \in {"upload", "download", "file", "health"}
    [] variant = 2 -> RouteV2(r) = "api"
    [] variant = 3 -> RouteV3(r) \in {"upload", "download"}

\* An exception inside the middleware chain is followed only in the variant
\* that registers an error handler.
Arrivals == {r \in Requests : r.fault => variant = 2}

\* ------------------------------------------------------------ path rewrite
\* pathRewrite: { '^/api': value }, applied to req.originalUrl
rewriteValue ==
  CASE variant = 1 -> <<>>
    [] variant = 2 -> S_api
    [] variant = 3 -> <<>>

\* Mutant of pathRewrite: the pattern without its anchor and with the global
\* flag (/\/api/g), which removes every occurrence.
RECURSIVE pathRewriteGlobal(_)
pathRewriteGlobal(url) ==
  IF url = <<>> THEN <<>>
  ELSE IF StartsWith(url, S_api)
       THEN rewriteValue \o pathRewriteGlobal(Drop(url, Len(S_api)))
       ELSE <<url[1]>> \o pathRewriteGlobal(Drop(url, 1))

pathRewrite(url) ==
  IF StartsWith(url, S_api) THEN rewriteValue \o Drop(url, Len(S_api)) ELSE url

\* --------------------------------------------------------- outbound request
inboundHeaders(r) ==
  Json({<<"host", r.host>>, <<"origin", r.origin>>})

\* changeOrigin: true
changeOrigin(h) == SetHeader(h, "host", target)

\* onProxyReq of each variant
onProxyReq(h, r) ==
  CASE variant = 1 -> h
    [] variant = 2 ->
         SetHeader(SetHeader(SetHeader(SetHeader(h,
           "x-forwarded-host", r.host),
           "x-forwarded-proto", r.protocol),
           "x-original-host", r.host),
           "x-gateway-request", "true")
    [] variant = 3 -> h

proxyReq(r) ==
  [method |-> r.method,
   path |-> pathRewrite(originalUrl(r)),
   headers |-> onProxyReq(changeOrigin(inboundHeaders(r)), r)]

\* ------------------------------------------------ headers set by the gateway
\* src/gateway.js lines 140-143
manualCors(rs, r) ==
  [rs EXCEPT !.headers =
     SetHeaders(rs.headers,
       {<<"access-control-allow-origin", Or(r.origin, "*")>>,
        <<"access-control-allow-methods", "GET, POST, PUT, DELETE, OPTIONS">>,
        <<"access-control-allow-headers", "Content-Type, Authorization, x-forwarded-host, x-forwarded-proto, Accept, Origin, X-Requested-With">>,
        <<"access-control-allow-credentials", "true">>})]

\* cors(corsOptions): the origin callback allows every origin
corsHeaders(rs, r) ==
  [rs EXCEPT !.headers =
     SetHeaders(rs.headers,
       Json({<<"access-control-allow-origin", r.origin>>,
             <<"vary", "Origin">>,
             <<"access-control-allow-credentials", "true">>}))]

\* The response as the handlers of a variant find it.
resAtHandler(r) ==
  IF variant = 2 THEN manualCors(corsHeaders(NewRes, r), r) ELSE NewRes

UnchangedForward == UNCHANGED <<outbound, answers, relayed, elapsed, failure>>
UnchangedProcess == UNCHANGED <<variant, envBackendUrl, envNodeEnv, proc>>

\* --------------------------------------------------------- local handlers
\* GET / , GET /health , GET /api/test
staticBody(name) ==
  CASE name = "root" /\ variant = 1 -> {<<"message", "Gateway root is working">>}
    [] name = "apitest" -> {<<"message", "API test route is working">>}
    [] name = "root" /\ variant = 2 ->
         {<<"message", "API Gateway is running">>,
          <<"backend_url", CONFIG.BACKEND_URL>>,
          <<"environment", CONFIG.NODE_ENV>>,
          <<"status", "healthy">>}
    [] name = "health" ->
         {<<"status", "ok">>,
          <<"backend_url", CONFIG.BACKEND_URL>>,
          <<"environment", CONFIG.NODE_ENV>>}

HandleStatic ==
  /\ proc = "listening" /\ req = NoReq
  /\ \E r \in Arrivals :
    /\ ~Forwards(r)
    /\ Route(r) \in {"root", "apitest", "health"}
    /\ req' = r
    /\ res' = SendJson(resAtHandler(r), 200, staticBody(Route(r)))
    /\ handledBy' = "static"
    /\ phase' = "Idle"
    /\ UnchangedForward /\ UnchangedProcess

\* app.options('*', cors(corsOptions)): cors ends a preflight itself, with
\* its default success status and no body.
HandlePreflight ==
  /\ proc = "listening" /\ req = NoReq
  /\ \E r \in Arrivals :
    /\ variant = 2 /\ Route(r) = "preflight"
    /\ req' = r
    /\ res' = SendText(corsHeaders(NewRes, r), 204, <<>>)
    /\ handledBy' = "cors"
    /\ phase' = "Idle"
    /\ UnchangedForward /\ UnchangedProcess

\* GET /test-backend: fetch(BACKEND_URL + '/health'), then relay or catch.
HandleTestBackend ==
  /\ proc = "listening" /\ req = NoReq
  /\ \E r \in Arrivals :
    /\ variant = 2 /\ Route(r) = "probe"
    /\ req' = r
    /\ \/ \E ok \in BOOLEAN :
            /\ res' = SendJson(resAtHandler(r), 200,
                        {<<"backend_status", IF ok THEN "200" ELSE "503">>,
                         <<"backend_response", "body">>,
                         <<"backend_url", CONFIG.BACKEND_URL>>,
                         <<"backend_ok", IF ok THEN "true" ELSE "false">>})
            /\ failure' = NoErr
       \/ \E err \in ConnectErrors :
            /\ res' = SendJson(resAtHandler(r), 500,
                        {<<"error", "Backend unreachable">>,
                         <<"message", err.message>>,
                         <<"backend_url", CONFIG.BACKEND_URL>>})
            /\ failure' = err
    /\ handledBy' = "probe"
    /\ phase' = "Idle"
    /\ UNCHANGED <<outbound, answers, relayed, elapsed>> /\ UnchangedProcess

\* The global error handler of variant 2.
HandleInternalError ==
  /\ proc = "listening" /\ req = NoReq
  /\ \E r \in Arrivals :
    /\ variant = 2 /\ Route(r) = "error"
    /\ req' = r
    /\ res' = SendJson(resAtHandler(r), 500,
                {<<"error", "Internal server error">>,
                 <<"message", IF CONFIG.NODE_ENV = "development"
                              THEN "thrown" ELSE "Something went wrong">>})
    /\ handledBy' = "global"
    /\ phase' = "Idle"
    /\ UnchangedForward /\ UnchangedProcess

\* No route of variant 1 handles OPTIONS: the router answers an OPTIONS
\* request on a routed path with the allowed methods, and anything else
\* unrouted gets the framework's 404.
allowV1(p) ==
  IF RouteV1([NoReq EXCEPT !.method = "POST", !.path = p]) # "none"
  THEN "POST"
  ELSE IF RouteV1([NoReq EXCEPT !.method = "GET", !.path = p]) # "none"
       THEN "GET,HEAD"
       ELSE Undefined

HandleUnrouted ==
  /\ proc = "listening" /\ req = NoReq
  /\ \E r \in Arrivals :
    /\ Route(r) = "none"
    /\ req' = r
    /\ res' = IF variant = 1 /\ r.method = "OPTIONS" /\ allowV1(r.path) # Undefined
              THEN SendText([NewRes EXCEPT !.headers = {<<"allow", allowV1(r.path)>>}],
                            200, <<allowV1(r.path)>>)
              ELSE SendText(resAtHandler(r), 404, <<"Cannot ", r.method>>)
    /\ handledBy' = "framework"
    /\ phase' = "Idle"
    /\ UnchangedForward /\ UnchangedProcess

\* ------------------------------------------------------------ the backend
H_custom == {<<"x-custom", "v">>}
H_cors == {<<"x-custom", "v">>,
           <<"access-control-allow-origin", "https://backend-chosen.example">>}
H_location == {<<"location", "/moved">>}

\* The response heads and bodies the backend may answer with.
Answers ==
  { [status |-> 200, headers |-> {}, body |-> <<>>],
    [status |-> 201, headers |-> H_custom, body |-> <<"{ok:true}">>],
    [status |-> 200, headers |-> H_cors, body |-> <<"part1", "part2">>],
    [status |-> 404, headers |-> H_custom, body |-> <<"missing">>],
    [status |-> 302, headers |-> H_location, body |-> <<>>],
    [status |-> 302, headers |-> H_custom, body |-> <<"moved">>] }

IsRedirect(a) ==
  /\ a.status \in 300..399
  /\ HasHeader(a.headers, "location")

\* followRedirects: true is set by variant 2 only.
followRedirects == variant = 2

\* timeout option of variant 2, in ms
timeout == 60000
TickMs == timeout \div 2
hasTimeout == variant = 2

Last(s) == s[Len(s)]

\* --------------------------------------------------------------- forwarding
\* The proxy middleware takes the request: the outbound request is built
\* and sent to the target.
StartForward ==
  /\ proc = "listening" /\ req = NoReq
  /\ \E r \in Arrivals :
    /\ Forwards(r)
    /\ req' = r
    /\ res' = resAtHandler(r)
    /\ outbound' = <<proxyReq(r)>>
    /\ phase' = "Sending"
    /\ answers' = <<>>
    /\ relayed' = 0
    /\ elapsed' = 0
    /\ failure' = NoErr
    /\ handledBy' = "proxy"
    /\ UnchangedProcess

\* routeName of createProxy(routeName)
routeName == Route(req)

\* The error handler of each variant.  Variant 3 registers none, so the
\* proxy library's default handler answers: 504 for the connection errors
\* it knows, 500 otherwise, a text body, and the response is always ended.
defaultErrorHandler(err, rs) ==
  SendText(rs,
           IF rs.headersSent THEN rs.statusCode
           ELSE IF err.code \in {"ECONNRESET", "ENOTFOUND", "ECONNREFUSED", "ETIMEDOUT"}
                THEN 504 ELSE 500,
           <<"Error occurred while trying to proxy">>)

onError(err, rs) ==
  CASE variant = 1 ->
         IF ~rs.headersSent
         THEN SendJson(rs, 502, {<<"error", "Bad Gateway">>,
                                 <<"details", err.message>>,
                                 <<"route", routeName>>})
         ELSE rs
    [] variant = 2 ->
         IF ~rs.headersSent
         THEN SendJson(rs, 502,
                {<<"error", "Bad Gateway">>,
                 <<"message", "Backend service unavailable">>,
                 <<"backend_url", CONFIG.BACKEND_URL>>,
                 <<"details", IF CONFIG.NODE_ENV = "development"
                              THEN err.message ELSE Undefined>>})
         ELSE rs
    [] variant = 3 -> defaultErrorHandler(err, rs)

\* The backend cannot be reached: the outbound request emits an error
\* before any response.
BackendUnreachable ==
  /\ phase = "Sending"
  /\ \E err \in ConnectErrors :
    /\ failure' = err
    /\ res' = onError(err, res)
    /\ phase' = "Failed"
    /\ UNCHANGED <<req, outbound, answers, relayed, elapsed, handledBy>>
    /\ UnchangedProcess

\* The method of the request that follows a redirect.
redirectMethod(m, status) ==
  IF status \in {301, 302, 303} /\ m = "POST" THEN "GET" ELSE m

\* web-outgoing: the backend's status code and each of its headers are set
\* on the response (setHeader replaces a value the gateway had set).
\* Mutant of writeHead: a header the gateway has already set keeps the
\* gateway's value.
writeHeadKeep(rs, a) ==
  [rs EXCEPT !.statusCode = a.status,
             !.headers = SetHeaders(rs.headers,
                           {p \in a.headers : ~HasHeader(rs.headers, p[1])})]

writeHead(rs, a) ==
  [rs EXCEPT !.statusCode = a.status,
             !.headers = SetHeaders(rs.headers, a.headers)]

\* The backend answers with a response head.  With followRedirects the
\* outbound request follows a redirect itself; otherwise the head is set on
\* the client's response and the body is piped.
BackendRespond ==
  /\ phase = "Sending"
  /\ \E a \in Answers :
    /\ IsRedirect(a) /\ followRedirects => Len(answers) < MaxHops
    /\ answers' = Append(answers, a)
    /\ IF IsRedirect(a) /\ followRedirects
       THEN /\ outbound' = Append(outbound,
                 [Last(outbound) EXCEPT
                    !.method = redirectMethod(Last(outbound).method, a.status),
                    !.path = <<"/", "m", "o", "v", "e", "d">>])
            /\ UNCHANGED <<res, phase>>
       ELSE /\ res' = writeHead(res, a)
            /\ phase' = "Relaying"
            /\ UNCHANGED outbound
    /\ relayed' = 0
    /\ elapsed' = 0
    /\ UNCHANGED <<req, failure, handledBy>>
    /\ UnchangedProcess

\* proxyRes.pipe(res): one chunk of the backend's body is written.
BodyData ==
  /\ phase = "Relaying"
  /\ relayed < Len(Last(answers).body)
  /\ relayed' = relayed + 1
  /\ res' = [res EXCEPT !.body = Append(res.body, Last(answers).body[relayed + 1]),
                        !.headersSent = TRUE,
                        !.heads = res.heads + (IF res.headersSent THEN 0 ELSE 1)]
  /\ UNCHANGED <<req, phase, outbound, answers, elapsed, failure, handledBy>>
  /\ UnchangedProcess

\* The backend's body is complete: pipe ends the response.
BackendEnd ==
  /\ phase = "Relaying"
  /\ relayed = Len(Last(answers).body)
  /\ res' = [res EXCEPT !.headersSent = TRUE, !.ended = TRUE,
                        !.heads = res.heads + (IF res.headersSent THEN 0 ELSE 1)]
  /\ phase' = "Done"
  /\ UNCHANGED <<req, outbound, answers, relayed, elapsed, failure, handledBy>>
  /\ UnchangedProcess

\* The connection to the backend fails while the response is relayed.
StreamError ==
  /\ phase = "Relaying"
  /\ \E err \in StreamErrors :
    /\ failure' = err
    /\ res' = onError(err, res)
    /\ phase' = "Failed"
    /\ UNCHANGED <<req, outbound, answers, relayed, elapsed, handledBy>>
    /\ UnchangedProcess

\* Time passes while the backend stays silent.  Where a timeout is set,
\* time does not pass the deadline without the timer firing.
Tick ==
  /\ phase = "Sending"
  /\ elapsed < MaxTicks * TickMs
  /\ hasTimeout => elapsed < timeout
  /\ elapsed' = elapsed + TickMs
  /\ UNCHANGED <<req, phase, res, outbound, answers, relayed, failure, handledBy>>
  /\ UnchangedProcess

\* timeout: 60000 is the inactivity timeout of the inbound socket: when it
\* fires the socket is destroyed and the outbound request aborted; no error
\* reaches onError.
Timeout ==
  /\ hasTimeout
  /\ phase = "Sending"
  /\ elapsed >= timeout
  /\ res' = [res EXCEPT !.destroyed = TRUE]
  /\ phase' = "Failed"
  /\ handledBy' = "socket-timeout"
  /\ UNCHANGED <<req, outbound, answers, relayed, elapsed, failure>>
  /\ UnchangedProcess

\* The exchange is over (or the client has given up): the next request.
Finish ==
  /\ req # NoReq
  /\ phase \in {"Idle", "Done", "Failed"}
  /\ req' = NoReq
  /\ res' = NewRes
  /\ phase' = "Idle"
  /\ outbound' = <<>>
  /\ answers' = <<>>
  /\ relayed' = 0
  /\ elapsed' = 0
  /\ failure' = NoErr
  /\ handledBy' = "none"
  /\ UnchangedProcess

Next ==
  \/ Startup
  \/ HandleStatic
  \/ HandlePreflight
  \/ HandleTestBackend
  \/ HandleInternalError
  \/ HandleUnrouted
  \/ StartForward
  \/ BackendUnreachable
  \/ BackendRespond
  \/ BodyData
  \/ BackendEnd
  \/ StreamError
  \/ Tick
  \/ Timeout
  \/ Finish

Spec == Init /\ [][Next]_vars

\* ======================================================================
\* The claims
\* ======================================================================

\* C1: a forwarded request whose backend is unreachable before any response
\* has begun is answered with status 502 and a JSON body whose error field
\* is "Bad Gateway" and which has a message field.
C1_Unreachable502Json ==
  (phase = "Failed" /\ failure \in ConnectErrors) =>
    /\ res.ended
    /\ res.statusCode = 502
    /\ JsonGet(res.json, "error") = "Bad Gateway"
    /\ JsonHas(res.json, "message")

\* C2: a forwarded request never waits for the backend's first response
\* byte beyond the configured timeout, and when the timeout expires the
\* client is answered with 502.
C2_TimeoutAnswers502 ==
  /\ phase = "Sending" => elapsed <= timeout
  /\ (phase = "Failed" /\ elapsed >= timeout) =>
       (res.ended /\ res.statusCode = 502)

\* C3: a forward call that has ended in Done or Failed has written exactly
\* one response to the client: the response is ended or the connection
\* terminated (never zero), and no second head is written (never two).
C3_ExactlyOneResponse ==
  phase \in {"Done", "Failed"} =>
    /\ res.ended \/ res.destroyed
    /\ res.heads <= 1

\* C4 (as stated): for every variant, the path sent to the backend is the
\* inbound path with the prefix /api removed once from the front, the query
\* string appended unmodified.
C4_PrefixStrippedEveryVariant ==
  Len(outbound) >= 1 =>
    /\ outbound[1].method = req.method
    /\ S_api \o outbound[1].path = originalUrl(req)

\* C4 (amended): variants 1 and 3 send the inbound path with /api removed
\* exactly once from the front and the query string unmodified (so POST
\* /api/upload reaches the backend as POST /upload); variant 2 sends the
\* inbound path and query unchanged, /api kept; rewriting a path that does
\* not start with the prefix leaves it unchanged.
C4_PathRewrite ==
  Len(outbound) >= 1 =>
    /\ outbound[1].method = req.method
    /\ variant \in {1, 3} => S_api \o outbound[1].path = originalUrl(req)
    /\ variant = 2 => outbound[1].path = originalUrl(req)
    /\ (req.method = "POST" /\ originalUrl(req) = S_api \o S_upload /\ variant # 2)
         => outbound[1].path = S_upload
    /\ ~StartsWith(outbound[1].path, S_api)
         => pathRewrite(outbound[1].path) = outbound[1].path

\* C4 witness: variant 3 has forwarded /api/upload/api?p=/api, a URL that
\* holds the prefix three times, as /upload/api?p=/api.
C4_Witness ==
  /\ variant = 3
  /\ req.path = S_api \o S_upload \o S_api
  /\ req.query = S_query
  /\ Len(outbound) = 1
  /\ outbound[1].path = S_upload \o S_api \o S_query

\* The client's response carries the answer a.
Carries(rs, a) ==
  /\ rs.statusCode = a.status
  /\ a.headers \subseteq rs.headers
  /\ rs.body = a.body
  /\ rs.json = {}

\* C5 (as stated): every answer of the backend to a forwarded request, 3xx
\* included, reaches the client with its status, headers and body unchanged.
C5_EveryAnswerRelayed ==
  phase = "Done" => \A i \in 1..Len(answers) : Carries(res, answers[i])

\* C5 (amended): the client receives status, headers and body of the
\* backend's answer unchanged, except that variant 2 follows a 3xx answer
\* that carries a Location header itself and relays the answer of the
\* redirect target in its place.
C5_AnswerRelayed ==
  phase = "Done" =>
    /\ res.ended
    /\ res.heads = 1
    /\ Carries(res, answers[Len(answers)])
    /\ \A i \in 1..(Len(answers) - 1) :
         /\ variant = 2
         /\ answers[i].status \in 300..399
         /\ HasHeader(answers[i].headers, "location")

\* C5 witness: variant 2 has followed a redirect and relayed an answer that
\* sets a header the gateway had set itself.
C5_Witness ==
  /\ variant = 2
  /\ phase = "Done"
  /\ Len(answers) = 2
  /\ answers[2].headers = H_cors
  /\ res.body = <<"part1", "part2">>
  /\ GetHeader(res.headers, "access-control-allow-origin")
       = "https://backend-chosen.example"

\* C6: an OPTIONS request is never forwarded, and its response is 200 with
\* an empty body.
C6_OptionsShortCircuit ==
  req.method = "OPTIONS" =>
    /\ outbound = <<>>
    /\ res.ended => (res.statusCode = 200 /\ res.body = <<>> /\ res.json = {})

\* C7: with BACKEND_URL absent or empty the process never listens.
C7_FailFast ==
  Falsy(envBackendUrl) => proc # "listening"

\* C8: every outbound request carries x-forwarded-host and x-original-host
\* equal to the inbound Host, x-forwarded-proto equal to the inbound scheme
\* and x-gateway-request "true".
C8_ForwardingHeaders ==
  \A i \in 1..Len(outbound) :
    /\ GetHeader(outbound[i].headers, "x-forwarded-host") = req.host
    /\ GetHeader(outbound[i].headers, "x-original-host") = req.host
    /\ GetHeader(outbound[i].headers, "x-forwarded-proto") = req.protocol
    /\ GetHeader(outbound[i].headers, "x-gateway-request") = "true"

\* The environment mode a variant runs under: variant 2 reads it through
\* CONFIG, the others have only the process environment.
environmentMode == IF variant = 2 THEN CONFIG.NODE_ENV ELSE envNodeEnv

\* C9: the raw failure message appears in the 502 body of a proxy failure
\* only when the environment mode is exactly development.
C9_DetailsOnlyInDevelopment ==
  (phase = "Failed" /\ failure # NoErr /\ res.statusCode = 502) =>
    ((\E p \in res.json : p[2] = failure.message) =>
       environmentMode = "development")

\* C10: a failure to reach the backend is answered with 502, on the
\* forwarded routes and on the /test-backend probe alike, and 500 is
\* written only by the top-level error handler.
C10_Unreachable502Not500 ==
  /\ (failure \in ConnectErrors /\ res.ended) => res.statusCode = 502
  /\ (res.ended /\ res.statusCode = 500) => handledBy = "global"
====
